---- MODULE Spec2Model ----
(***************************************************************************)
(* Model of main.py: the dialogue-to-audio batch pipeline.                 *)
(*   parse_dialogue_file -> get_available_voices -> voice map (custom or   *)
(*   round-robin) -> create_conversation_audio -> export.                  *)
(* Text is modelled as sequences of one-character strings, audio as        *)
(* sequences of pieces with a duration in milliseconds.                    *)
(***************************************************************************)
EXTENDS Integers, Sequences, FiniteSets

VARIABLES
    input_file,        \* content of the file args.input_file names
    speaker_map,       \* args.speaker_map: None or a path
    pause_mean,        \* args.pause_mean
    pause_stdev,       \* args.pause_stdev
    pc,                \* position of the single thread of control
    dialogue,          \* main: dialogue, list of <<character, text>>
    characters,        \* main: characters, list(set) of the speakers
    available_voices,  \* main: available_voices
    custom_voice_map,  \* main: custom_voice_map (json.load), None before
    voice_map,         \* main: voice_map
    i,                 \* create_conversation_audio: index of the line in the loop
    conversation,      \* create_conversation_audio: conversation
    audio,             \* create_conversation_audio: audio, the byte stream
    temp_file,         \* create_conversation_audio: temp_file, the last name
    temp_files,        \* temporary files that exist on disk
    audio_segment,     \* create_conversation_audio: audio_segment
    sample,            \* value drawn by np.random.normal, in 1/Resolution ms
    pause_duration,    \* create_conversation_audio: pause_duration
    synth_calls,       \* the provider's log of client.generate calls, in call order
    output_file,       \* <<>> or <<duration>> of the exported wav
    exception,         \* exception that ended the run, "None" otherwise
    exit_code          \* <<>> while running, <<code>> once the process ended

vars == <<input_file, speaker_map, pause_mean, pause_stdev, pc, dialogue,
          characters, available_voices, custom_voice_map, voice_map, i,
          conversation, audio, temp_file, temp_files, audio_segment, sample,
          pause_duration, synth_calls, output_file, exception, exit_code>>

----------------------------------------------------------------------------
(* Bounds of the model *)

MaxLines == 2          \* lines of the input file
MaxVoices == 2         \* voices of the provider's catalog
MaxDev == 2            \* largest deviation of a draw from the mean, in 1/Resolution ms
Resolution == 2        \* a drawn value is a multiple of 1/Resolution ms

None == "None"

(* Raw input lines the file is made of; the empty file is one blank line *)
RawLines ==
    { <<"A", ":", " ", "h", "i">>,          \* "A: hi"
      <<" ", "B", ":", "y", "o", " ">>,     \* " B:yo "
      <<"n", "o", " ", "c">> }              \* "no c": no speaker prefix

WordChars == {"A", "B", "h", "i", "y", "o", "n", "c", "_"}
WhiteSpace == {" ", "\t"}

Speakers == { <<"A">>, <<"B">> }
VoiceCatalog == <<"Rachel", "Adam", "Bella">>
VoiceNames == {"Rachel", "Adam"}
SpeakerMapArgs == {None, "map.json"}
PauseMeans == {0, 200, 500}
PauseStdevs == {-1, 0, 100}
SegmentDurations == {1000, 1500}

----------------------------------------------------------------------------
(* Helpers *)

Range(s) == { s[k] : k \in 1..Len(s) }

SeqsUpTo(S, n) == UNION { [1..k -> S] : k \in 0..n }

Orderings(S) ==
    { s \in [1..Cardinality(S) -> S] : \A a, b \in 1..Cardinality(S) : s[a] = s[b] => a = b }

Max(a, b) == IF a >= b THEN a ELSE b

RECURSIVE JoinLines(_)
JoinLines(ls) ==
    IF ls = <<>> THEN <<>>
    ELSE IF Len(ls) = 1 THEN ls[1]
    ELSE ls[1] \o <<"\n">> \o JoinLines(Tail(ls))

(* str.split("\n") *)
RECURSIVE SplitLines(_)
SplitLines(s) ==
    IF \A k \in 1..Len(s) : s[k] # "\n" THEN <<s>>
    ELSE LET k == CHOOSE k \in 1..Len(s) :
                    s[k] = "\n" /\ \A j \in 1..(k - 1) : s[j] # "\n"
         IN  <<SubSeq(s, 1, k - 1)>> \o SplitLines(SubSeq(s, k + 1, Len(s)))

RECURSIVE LStrip(_)
LStrip(s) ==
    IF s # <<>> /\ Head(s) \in WhiteSpace THEN LStrip(Tail(s)) ELSE s

RECURSIVE RStrip(_)
RStrip(s) ==
    IF s # <<>> /\ s[Len(s)] \in WhiteSpace THEN RStrip(SubSeq(s, 1, Len(s) - 1)) ELSE s

(* str.strip() *)
Strip(s) == RStrip(LStrip(s))

(* length of the longest prefix of \w characters *)
RECURSIVE WordPrefixLen(_)
WordPrefixLen(s) ==
    IF s # <<>> /\ Head(s) \in WordChars THEN 1 + WordPrefixLen(Tail(s)) ELSE 0

NoMatch == <<>>

(* re.match(r"(\w+):\s*(.+)", s).groups(), NoMatch when there is no match *)
Match(s) ==
    LET n == WordPrefixLen(s)
    IN  IF n >= 1 /\ Len(s) >= n + 1 /\ s[n + 1] = ":"
        THEN LET text == LStrip(SubSeq(s, n + 2, Len(s)))
             IN  IF Len(text) >= 1 THEN <<SubSeq(s, 1, n), text>> ELSE NoMatch
        ELSE NoMatch

RECURSIVE ParseLines(_)
ParseLines(lines) ==
    IF lines = <<>> THEN <<>>
    ELSE LET m == Match(Strip(Head(lines)))
         IN  (IF m # NoMatch THEN <<m>> ELSE <<>>) \o ParseLines(Tail(lines))

(* the dialogue parse_dialogue_file returns *)
ParseDialogue(content) == ParseLines(SplitLines(content))

(* the set parse_dialogue_file collects the speakers in *)
CharacterSet(d) == { d[k][1] : k \in 1..Len(d) }

(* assign_voices_to_characters; requires Len(voices) > 0 or chars = <<>> *)
AssignVoices(chars, voices) ==
    [ c \in Range(chars) |->
        LET k == CHOOSE k \in 1..Len(chars) :
                    chars[k] = c /\ \A j \in (k + 1)..Len(chars) : chars[j] # c
        IN  voices[((k - 1) % Len(voices)) + 1] ]

(* the set difference of main.py:83 taken the wrong way round *)
InvalidVoicesReversed(custom, voices) ==
    Range(voices) \ { custom[c] : c \in DOMAIN custom }

(* main: invalid_voices *)
InvalidVoices(custom, voices) ==
    { custom[c] : c \in DOMAIN custom } \ Range(voices)

(* int(): truncation toward zero of a value given in 1/Resolution ms *)
Trunc(x) == IF x >= 0 THEN x \div Resolution ELSE -((-x) \div Resolution)

(* main.py:69 left out: the truncated draw is used as it is *)
PauseDurationUnclamped(x) == Trunc(x)

(* pause_duration = max(0, int(drawn)) *)
PauseDuration(x) == Max(0, Trunc(x))

(* values np.random.normal(mean, stdev) can return, for stdev >= 0 *)
Draws(mean, stdev) ==
    IF stdev = 0 THEN {mean * Resolution}
    ELSE { mean * Resolution + d : d \in (-MaxDev)..MaxDev }

Speech(line, ms) == [kind |-> "speech", line |-> line, ms |-> ms]
Silent(ms) == [kind |-> "silence", ms |-> ms]

(* main.py:71 with = in place of += *)
AppendLineReplaced(conv, seg, silence) == <<seg>> \o <<silence>>

(* conversation += audio_segment + AudioSegment.silent(duration) *)
AppendLine(conv, seg, silence) == conv \o (<<seg>> \o <<silence>>)

RECURSIVE Duration(_)
Duration(conv) == IF conv = <<>> THEN 0 ELSE Head(conv).ms + Duration(Tail(conv))

Truthy(x) == x # None /\ x # ""

(* one entry of the log of synthesis calls *)
Call(line, status) == [line |-> line, status |-> status]

(* the log with the status of the last call replaced *)
Settle(calls, status) ==
    [calls EXCEPT ![Len(calls)] = Call(calls[Len(calls)].line, status)]

----------------------------------------------------------------------------
Init ==
    /\ \E ls \in SeqsUpTo(RawLines, MaxLines) : input_file = JoinLines(ls)
    /\ speaker_map \in SpeakerMapArgs
    /\ pause_mean \in PauseMeans
    /\ pause_stdev \in PauseStdevs
    /\ pc = "parse"
    /\ dialogue = <<>>
    /\ characters = <<>>
    /\ available_voices = <<>>
    /\ custom_voice_map = None
    /\ voice_map = None
    /\ i = 0
    /\ conversation = <<>>
    /\ audio = None
    /\ temp_file = None
    /\ temp_files = {}
    /\ audio_segment = None
    /\ sample = None
    /\ pause_duration = None
    /\ synth_calls = <<>>
    /\ output_file = <<>>
    /\ exception = None
    /\ exit_code = <<>>

Raise(e) ==
    /\ pc' = "exited"
    /\ exception' = e
    /\ exit_code' = <<1>>

(* main.py:77 *)
ParseDialogueFile ==
    /\ pc = "parse"
    /\ dialogue' = ParseDialogue(input_file)
    /\ characters' \in Orderings(CharacterSet(dialogue'))
    /\ pc' = "get_voices"
    /\ UNCHANGED <<input_file, speaker_map, pause_mean, pause_stdev,
                   available_voices, custom_voice_map, voice_map, i, conversation,
                   audio, temp_file, temp_files, audio_segment, sample,
                   pause_duration, synth_calls, output_file, exception, exit_code>>

(* main.py:78 *)
GetAvailableVoices ==
    /\ pc = "get_voices"
    /\ \E n \in 0..MaxVoices : available_voices' = SubSeq(VoiceCatalog, 1, n)
    /\ pc' = IF Truthy(speaker_map) THEN "load_map" ELSE "assign"
    /\ UNCHANGED <<input_file, speaker_map, pause_mean, pause_stdev, dialogue,
                   characters, custom_voice_map, voice_map, i, conversation,
                   audio, temp_file, temp_files, audio_segment, sample,
                   pause_duration, synth_calls, output_file, exception, exit_code>>

(* main.py:80-82: json.load of the speaker map *)
LoadSpeakerMap ==
    /\ pc = "load_map"
    /\ \E keys \in SUBSET Speakers : custom_voice_map' \in [keys -> VoiceNames]
    /\ pc' = "validate"
    /\ UNCHANGED <<input_file, speaker_map, pause_mean, pause_stdev, dialogue,
                   characters, available_voices, voice_map, i, conversation,
                   audio, temp_file, temp_files, audio_segment, sample,
                   pause_duration, synth_calls, output_file, exception, exit_code>>

(* main.py:81-82: the map file is missing or is not JSON *)
LoadSpeakerMapFails ==
    /\ pc = "load_map"
    /\ \E e \in {"FileNotFoundError", "JSONDecodeError"} : Raise(e)
    /\ UNCHANGED <<input_file, speaker_map, pause_mean, pause_stdev, dialogue,
                   characters, available_voices, custom_voice_map, voice_map, i,
                   conversation, audio, temp_file, temp_files, audio_segment,
                   sample, pause_duration, synth_calls, output_file>>

(* main.py:83-89: sys.exit(1) on a voice that is not available *)
ValidateExit ==
    /\ pc = "validate"
    /\ InvalidVoices(custom_voice_map, available_voices) # {}
    /\ Raise("SystemExit")
    /\ UNCHANGED <<input_file, speaker_map, pause_mean, pause_stdev, dialogue,
                   characters, available_voices, custom_voice_map, voice_map, i,
                   conversation, audio, temp_file, temp_files, audio_segment,
                   sample, pause_duration, synth_calls, output_file>>

(* main.py:90-92 without the else: the valid custom map falls through to line 92 *)
ValidateOkFallsThrough ==
    /\ pc = "validate"
    /\ InvalidVoices(custom_voice_map, available_voices) = {}
    /\ voice_map' = custom_voice_map
    /\ pc' = "assign"
    /\ UNCHANGED <<input_file, speaker_map, pause_mean, pause_stdev, dialogue,
                   characters, available_voices, custom_voice_map, i, conversation,
                   audio, temp_file, temp_files, audio_segment, sample,
                   pause_duration, synth_calls, output_file, exception, exit_code>>

(* main.py:83-84, 90 *)
ValidateOk ==
    /\ pc = "validate"
    /\ InvalidVoices(custom_voice_map, available_voices) = {}
    /\ voice_map' = custom_voice_map
    /\ pc' = "print"
    /\ UNCHANGED <<input_file, speaker_map, pause_mean, pause_stdev, dialogue,
                   characters, available_voices, custom_voice_map, i, conversation,
                   audio, temp_file, temp_files, audio_segment, sample,
                   pause_duration, synth_calls, output_file, exception, exit_code>>

(* main.py:92 with main.py:37-41 *)
AssignVoicesToCharacters ==
    /\ pc = "assign"
    /\ characters = <<>> \/ Len(available_voices) > 0
    /\ voice_map' = AssignVoices(characters, available_voices)
    /\ pc' = "print"
    /\ UNCHANGED <<input_file, speaker_map, pause_mean, pause_stdev, dialogue,
                   characters, available_voices, custom_voice_map, i, conversation,
                   audio, temp_file, temp_files, audio_segment, sample,
                   pause_duration, synth_calls, output_file, exception, exit_code>>

(* main.py:40: i % len(available_voices) with an empty catalog *)
AssignVoicesZeroDivision ==
    /\ pc = "assign"
    /\ characters # <<>>
    /\ Len(available_voices) = 0
    /\ Raise("ZeroDivisionError")
    /\ UNCHANGED <<input_file, speaker_map, pause_mean, pause_stdev, dialogue,
                   characters, available_voices, custom_voice_map, voice_map, i,
                   conversation, audio, temp_file, temp_files, audio_segment,
                   sample, pause_duration, synth_calls, output_file>>

(* main.py:94-98, 60: print the assignments, enter create_conversation_audio *)
PrintAssignments ==
    /\ pc = "print"
    /\ conversation' = <<>>
    /\ i' = 0
    /\ pc' = "loop"
    /\ UNCHANGED <<input_file, speaker_map, pause_mean, pause_stdev, dialogue,
                   characters, available_voices, custom_voice_map, voice_map,
                   audio, temp_file, temp_files, audio_segment, sample,
                   pause_duration, synth_calls, output_file, exception, exit_code>>

(* main.py:62-63, 45-49: next line, voice lookup, client.generate *)
GenerateCharacterAudio ==
    /\ pc = "loop"
    /\ i < Len(dialogue)
    /\ dialogue[i + 1][1] \in DOMAIN voice_map
    /\ i' = i + 1
    /\ synth_calls' = Append(synth_calls, Call(i + 1, "called"))
    /\ audio' = "stream"
    /\ pc' = "save_temp"
    /\ UNCHANGED <<input_file, speaker_map, pause_mean, pause_stdev, dialogue,
                   characters, available_voices, custom_voice_map, voice_map,
                   conversation, temp_file, temp_files, audio_segment, sample,
                   pause_duration, output_file, exception, exit_code>>

(* main.py:45: voice_map[character] for a speaker the map does not have *)
GenerateKeyError ==
    /\ pc = "loop"
    /\ i < Len(dialogue)
    /\ dialogue[i + 1][1] \notin DOMAIN voice_map
    /\ i' = i + 1
    /\ Raise("KeyError")
    /\ UNCHANGED <<input_file, speaker_map, pause_mean, pause_stdev, dialogue,
                   characters, available_voices, custom_voice_map, voice_map,
                   conversation, audio, temp_file, temp_files, audio_segment,
                   sample, pause_duration, synth_calls, output_file>>

(* main.py:46-48: client.generate raises *)
GenerateFails ==
    /\ pc = "loop"
    /\ i < Len(dialogue)
    /\ dialogue[i + 1][1] \in DOMAIN voice_map
    /\ i' = i + 1
    /\ synth_calls' = Append(synth_calls, Call(i + 1, "failed"))
    /\ Raise("ApiError")
    /\ UNCHANGED <<input_file, speaker_map, pause_mean, pause_stdev, dialogue,
                   characters, available_voices, custom_voice_map, voice_map,
                   conversation, audio, temp_file, temp_files, audio_segment,
                   sample, pause_duration, output_file>>

(* main.py:64, 52-56: the stream is written to a new temporary file *)
SaveTempAudio ==
    /\ pc = "save_temp"
    /\ temp_file' = i
    /\ temp_files' = temp_files \cup {i}
    /\ audio' = "consumed"
    /\ synth_calls' = Settle(synth_calls, "streamed")
    /\ pc' = "from_mp3"
    /\ UNCHANGED <<input_file, speaker_map, pause_mean, pause_stdev, dialogue,
                   characters, available_voices, custom_voice_map, voice_map, i,
                   conversation, audio_segment, sample, pause_duration,
                   output_file, exception, exit_code>>

(* main.py:53-55 inside a try/except that goes on to the next line *)
SaveTempAudioFailsSwallowed ==
    /\ pc = "save_temp"
    /\ temp_files' = temp_files \cup {i}
    /\ audio' = "consumed"
    /\ synth_calls' = Settle(synth_calls, "failed")
    /\ pc' = "loop"
    /\ UNCHANGED <<input_file, speaker_map, pause_mean, pause_stdev, dialogue,
                   characters, available_voices, custom_voice_map, voice_map, i,
                   conversation, temp_file, audio_segment, sample, pause_duration,
                   output_file, exception, exit_code>>

(* main.py:53-55: reading the stream raises; the file was made with delete=False *)
SaveTempAudioFails ==
    /\ pc = "save_temp"
    /\ temp_files' = temp_files \cup {i}
    /\ audio' = "consumed"
    /\ synth_calls' = Settle(synth_calls, "failed")
    /\ Raise("ApiError")
    /\ UNCHANGED <<input_file, speaker_map, pause_mean, pause_stdev, dialogue,
                   characters, available_voices, custom_voice_map, voice_map, i,
                   conversation, temp_file, audio_segment, sample, pause_duration,
                   output_file>>

(* main.py:65 *)
FromMp3 ==
    /\ pc = "from_mp3"
    /\ \E ms \in SegmentDurations : audio_segment' = Speech(i, ms)
    /\ pc' = "unlink"
    /\ UNCHANGED <<input_file, speaker_map, pause_mean, pause_stdev, dialogue,
                   characters, available_voices, custom_voice_map, voice_map, i,
                   conversation, audio, temp_file, temp_files, sample,
                   pause_duration, synth_calls, output_file, exception, exit_code>>

(* main.py:65: the bytes do not decode *)
FromMp3Fails ==
    /\ pc = "from_mp3"
    /\ Raise("CouldntDecodeError")
    /\ UNCHANGED <<input_file, speaker_map, pause_mean, pause_stdev, dialogue,
                   characters, available_voices, custom_voice_map, voice_map, i,
                   conversation, audio, temp_file, temp_files, audio_segment,
                   sample, pause_duration, synth_calls, output_file>>

(* main.py:66 left out *)
UnlinkSkipped ==
    /\ pc = "unlink"
    /\ pc' = "pause"
    /\ UNCHANGED <<input_file, speaker_map, pause_mean, pause_stdev, dialogue,
                   characters, available_voices, custom_voice_map, voice_map, i,
                   conversation, audio, temp_file, temp_files, audio_segment, sample,
                   pause_duration, synth_calls, output_file, exception, exit_code>>

(* main.py:66 *)
Unlink ==
    /\ pc = "unlink"
    /\ temp_files' = temp_files \ {temp_file}
    /\ pc' = "pause"
    /\ UNCHANGED <<input_file, speaker_map, pause_mean, pause_stdev, dialogue,
                   characters, available_voices, custom_voice_map, voice_map, i,
                   conversation, audio, temp_file, audio_segment, sample,
                   pause_duration, synth_calls, output_file, exception, exit_code>>

(* main.py:68-69 *)
SamplePause ==
    /\ pc = "pause"
    /\ pause_stdev >= 0
    /\ sample' \in Draws(pause_mean, pause_stdev)
    /\ pause_duration' = PauseDuration(sample')
    /\ pc' = "append"
    /\ UNCHANGED <<input_file, speaker_map, pause_mean, pause_stdev, dialogue,
                   characters, available_voices, custom_voice_map, voice_map, i,
                   conversation, audio, temp_file, temp_files, audio_segment,
                   synth_calls, output_file, exception, exit_code>>

(* main.py:68: np.random.normal raises ValueError("scale < 0") *)
SamplePauseValueError ==
    /\ pc = "pause"
    /\ pause_stdev < 0
    /\ Raise("ValueError")
    /\ UNCHANGED <<input_file, speaker_map, pause_mean, pause_stdev, dialogue,
                   characters, available_voices, custom_voice_map, voice_map, i,
                   conversation, audio, temp_file, temp_files, audio_segment,
                   sample, pause_duration, synth_calls, output_file>>

(* main.py:71 *)
AppendToConversation ==
    /\ pc = "append"
    /\ conversation' = AppendLine(conversation, audio_segment, Silent(pause_duration))
    /\ pc' = "loop"
    /\ UNCHANGED <<input_file, speaker_map, pause_mean, pause_stdev, dialogue,
                   characters, available_voices, custom_voice_map, voice_map, i,
                   audio, temp_file, temp_files, audio_segment, sample,
                   pause_duration, synth_calls, output_file, exception, exit_code>>

(* main.py:62, 73: the loop is exhausted, create_conversation_audio returns *)
ReturnConversation ==
    /\ pc = "loop"
    /\ i = Len(dialogue)
    /\ pc' = "export"
    /\ UNCHANGED <<input_file, speaker_map, pause_mean, pause_stdev, dialogue,
                   characters, available_voices, custom_voice_map, voice_map, i,
                   conversation, audio, temp_file, temp_files, audio_segment,
                   sample, pause_duration, synth_calls, output_file, exception,
                   exit_code>>

(* main.py:102-105: export the wav, the process ends with code 0 *)
Export ==
    /\ pc = "export"
    /\ output_file' = <<Duration(conversation)>>
    /\ pc' = "exited"
    /\ exit_code' = <<0>>
    /\ UNCHANGED <<input_file, speaker_map, pause_mean, pause_stdev, dialogue,
                   characters, available_voices, custom_voice_map, voice_map, i,
                   conversation, audio, temp_file, temp_files, audio_segment,
                   sample, pause_duration, synth_calls, exception>>

Next ==
    \/ ParseDialogueFile
    \/ GetAvailableVoices
    \/ LoadSpeakerMap
    \/ LoadSpeakerMapFails
    \/ ValidateExit
    \/ ValidateOk
    \/ AssignVoicesToCharacters
    \/ AssignVoicesZeroDivision
    \/ PrintAssignments
    \/ GenerateCharacterAudio
    \/ GenerateKeyError
    \/ GenerateFails
    \/ SaveTempAudio
    \/ SaveTempAudioFails
    \/ FromMp3
    \/ FromMp3Fails
    \/ Unlink
    \/ SamplePause
    \/ SamplePauseValueError
    \/ AppendToConversation
    \/ ReturnConversation
    \/ Export

Spec == Init /\ [][Next]_vars

----------------------------------------------------------------------------
(* Vocabulary of the properties *)

CustomMode == Truthy(speaker_map)
AutoMode == ~Truthy(speaker_map)

AssemblyPcs == {"loop", "save_temp", "from_mp3", "unlink", "pause", "append"}

(* the speaker map has been read by json.load *)
MapLoaded ==
    /\ CustomMode
    /\ pc \notin {"parse", "get_voices", "load_map"}
    /\ exception \notin {"FileNotFoundError", "JSONDecodeError"}

(* voice_map has been bound and the run has not died *)
VoiceMapBound == pc \in ({"print", "export"} \cup AssemblyPcs)

SomeVoiceUnavailable ==
    \E c \in DOMAIN custom_voice_map :
        \A k \in 1..Len(available_voices) : available_voices[k] # custom_voice_map[c]

(* speakers of a dialogue in the order of their first occurrence *)
RECURSIVE FirstSeen(_)
FirstSeen(d) ==
    IF d = <<>> THEN <<>>
    ELSE LET r == FirstSeen(SubSeq(d, 1, Len(d) - 1))
             c == d[Len(d)][1]
         IN  IF \E k \in 1..Len(r) : r[k] = c THEN r ELSE Append(r, c)

IsPrefix(a, b) == Len(a) <= Len(b) /\ SubSeq(b, 1, Len(a)) = a

RECURSIVE SumOfKind(_, _)
SumOfKind(conv, kind) ==
    IF conv = <<>> THEN 0
    ELSE (IF Head(conv).kind = kind THEN Head(conv).ms ELSE 0) + SumOfKind(Tail(conv), kind)

Merged(k) == \E j \in 1..Len(conversation) :
                 conversation[j].kind = "speech" /\ conversation[j].line = k

----------------------------------------------------------------------------
(* C1: in custom mode, when some voice of the loaded custom map is not in   *)
(* the available voices, the run makes no synthesis call, never appends to  *)
(* the timeline, exports nothing, and the only way on from the validation   *)
(* is the exit with code 1.                                                 *)
C1_InvalidVoiceExitsBeforeSynthesis ==
    (MapLoaded /\ SomeVoiceUnavailable) =>
        /\ synth_calls = <<>>
        /\ conversation = <<>>
        /\ output_file = <<>>
        /\ temp_files = {}
        /\ \/ pc = "validate"
           \/ pc = "exited" /\ exit_code = <<1>> /\ exception = "SystemExit"

C1_Witness ==
    /\ MapLoaded
    /\ SomeVoiceUnavailable
    /\ pc = "exited"
    /\ exit_code = <<1>>
    /\ Len(dialogue) = 2
    /\ \E c \in DOMAIN custom_voice_map :
           \E k \in 1..Len(available_voices) : available_voices[k] = custom_voice_map[c]

(* C2: whenever the run is in the assembly, the voice map has an entry for *)
(* every speaker of the dialogue (auto mode and custom mode).               *)
C2_EverySpeakerMapped ==
    pc \in AssemblyPcs =>
        \A k \in 1..Len(dialogue) : dialogue[k][1] \in DOMAIN voice_map

(* C3: in auto mode with at least one voice, the speaker with first-seen   *)
(* index k (0-based) has the voice at index k mod V of the catalog.        *)
C3_RoundRobinByFirstSeen ==
    (AutoMode /\ VoiceMapBound /\ Len(available_voices) >= 1) =>
        \A k \in 1..Len(FirstSeen(dialogue)) :
            voice_map[FirstSeen(dialogue)[k]] =
                available_voices[((k - 1) % Len(available_voices)) + 1]

(* C4: the speaker list parse_dialogue_file returns holds every speaker    *)
(* once, in the order of first occurrence.                                  *)
C4_SpeakersInFirstSeenOrder ==
    pc # "parse" => characters = FirstSeen(dialogue)

(* the run exported a dialogue of two lines decoded to 1000 ms and 1500 ms *)
(* with a fixed pause of 200 ms                                            *)
TwoLineExample ==
    /\ output_file # <<>>
    /\ pause_mean = 200
    /\ pause_stdev = 0
    /\ Len(dialogue) = 2
    /\ conversation[1].ms = 1000
    /\ conversation[3].ms = 1500

(* the timeline is seg_1, pause_1, ..., seg_k, pause_k for the k lines      *)
(* processed, and the exported duration is the sum of the segments plus    *)
(* the sum of the pauses                                                    *)
TimelineShape ==
    /\ Len(conversation) \in {2 * i, 2 * (i - 1)}
    /\ pc = "loop" => Len(conversation) = 2 * i
    /\ \A k \in 1..Len(conversation) :
           IF k % 2 = 1
           THEN conversation[k].kind = "speech" /\ conversation[k].line = (k + 1) \div 2
           ELSE conversation[k].kind = "silence"
    /\ output_file # <<>> =>
           /\ Len(conversation) = 2 * Len(dialogue)
           /\ output_file[1] =
                  SumOfKind(conversation, "speech") + SumOfKind(conversation, "silence")

(* C5, as stated: the timeline is seg_1, pause_1, ..., seg_k, pause_k, the *)
(* exported duration is the sum of segments and pauses, and two lines of   *)
(* 1000 ms and 1500 ms with a fixed pause of 200 ms export 2700 ms.        *)
C5_TwoLinesGive2700 ==
    /\ TimelineShape
    /\ TwoLineExample => output_file = <<2700>>

(* C5, amended: the timeline is seg_1, pause_1, ..., seg_k, pause_k for    *)
(* the k lines processed, every step leaves the earlier timeline as a      *)
(* prefix, the exported duration is the sum of the segments plus the sum   *)
(* of the pauses, and the two lines of the example export 2900 ms: a pause *)
(* follows the last line as well.                                           *)
C5_TimelineAppendOnly ==
    /\ [](TimelineShape /\ (TwoLineExample => output_file = <<2900>>))
    /\ [][IsPrefix(conversation, conversation')]_vars

C5_Witness ==
    /\ TwoLineExample
    /\ output_file = <<2900>>
    /\ conversation[2] = [kind |-> "silence", ms |-> 200]
    /\ conversation[4] = [kind |-> "silence", ms |-> 200]

(* C6: every pause of the timeline is >= 0; the pause is the drawn value   *)
(* truncated toward zero and clamped at 0; with mean 500 and standard      *)
(* deviation 0 every pause is 500 ms.                                       *)
C6_PauseNeverNegative ==
    /\ \A k \in 1..Len(conversation) :
           conversation[k].kind = "silence" =>
               /\ conversation[k].ms >= 0
               /\ (pause_mean = 500 /\ pause_stdev = 0) => conversation[k].ms = 500
    /\ pc = "append" =>
           /\ pause_duration >= 0
           /\ sample >= 0 =>
                  /\ pause_duration * Resolution <= sample
                  /\ sample < (pause_duration + 1) * Resolution
           /\ sample < 0 => pause_duration = 0
    /\ (pc = "loop" /\ i >= 1) => conversation[2 * i].ms = pause_duration

C6_Witness ==
    /\ pc = "loop"
    /\ i >= 1
    /\ sample <= -Resolution
    /\ conversation[2 * i] = [kind |-> "silence", ms |-> 0]

(* C7: in auto mode with an empty catalog the run ends in a reported       *)
(* configuration error before any synthesis call, never in the division    *)
(* error of the voice assignment.                                           *)
C7_EmptyCatalogReported ==
    (AutoMode /\ pc \notin {"parse", "get_voices"} /\ available_voices = <<>>) =>
        /\ synth_calls = <<>>
        /\ \/ pc = "assign"
           \/ pc = "exited" /\ exit_code = <<1>> /\ exception = "ConfigurationError"

(* C8: a synthesis call that fails is the last call of the run: the run    *)
(* has ended with a non-zero code, nothing was exported; every line is     *)
(* called at most once, in order; the export happens only when every line  *)
(* has been synthesized and appended.                                       *)
C8_SynthesisFailureAborts ==
    /\ \A k \in 1..Len(synth_calls) :
           /\ synth_calls[k].line = k
           /\ synth_calls[k].status = "failed" =>
                  /\ k = Len(synth_calls)
                  /\ pc = "exited"
                  /\ exit_code = <<1>>
                  /\ output_file = <<>>
    /\ Len(synth_calls) <= Len(dialogue)
    /\ (pc = "export" \/ output_file # <<>>) =>
           /\ Len(synth_calls) = Len(dialogue)
           /\ \A k \in 1..Len(synth_calls) : synth_calls[k].status = "streamed"
           /\ \A k \in 1..Len(dialogue) : Merged(k)

C8_Witness ==
    /\ Len(dialogue) = 2
    /\ Len(synth_calls) = 1
    /\ synth_calls[1].status = "failed"
    /\ temp_files = {1}
    /\ pc = "exited"

(* C9: in custom mode with every voice of the map available, the run does  *)
(* not exit at the validation and the voice map is the loaded custom map.  *)
C9_CustomMapVerbatim ==
    (MapLoaded /\ ~SomeVoiceUnavailable) =>
        /\ exception # "SystemExit"
        /\ pc # "validate" => voice_map = custom_voice_map

C9_Witness ==
    /\ MapLoaded
    /\ ~SomeVoiceUnavailable
    /\ output_file # <<>>
    /\ Len(dialogue) = 2
    /\ DOMAIN voice_map = Speakers
    /\ voice_map[<<"A">>] # voice_map[<<"B">>]

====
